---- MODULE Spec2Model ----
(***************************************************************************)
(* A model of Appifyours/backend/server.js: the Express handlers of the    *)
(* FunFood backend over two Mongoose collections, User and Product.        *)
(*                                                                         *)
(* Every `await` and every promise callback of a handler is a point at     *)
(* which other requests run, so a handler is one action per stretch of     *)
(* synchronous code between two store (or remote) round trips.             *)
(*                                                                         *)
(* The document store is the external collaborator of the handlers.  Its   *)
(* contract is the one the schemas declare (server.js:17-60: field types,  *)
(* required fields, the unique index on email, no schema option, so the    *)
(* version key __v is on and optimisticConcurrency is off) and Mongoose's: *)
(* findById/findOne read one document atomically; save() of a new document *)
(* inserts it; save() of a loaded document sends one atomic update made of *)
(* the paths the handler modified ($push for a push, $set for an assigned  *)
(* path), conditioned on and incrementing __v as Mongoose's versioning of  *)
(* array changes prescribes, and is rejected with a VersionError when the  *)
(* condition finds no document.                                            *)
(***************************************************************************)
EXTENDS Bags, FiniteSets, Integers, Sequences, TLC

VARIABLES
  User,     \* the User collection: _id -> document, or Null where there is none
  Product,  \* the Product collection: a bag of documents
  ureq,     \* the /api/users requests being handled, one per slot
  sreq,     \* the /api/products and /api/shop-data requests being handled
  ures,     \* the response the user routes sent last
  nsaved,   \* number of user-route requests that reached their save() so far
  rejected  \* history: the store has rejected a write of a refresh

vars == <<User, Product, ureq, sreq, ures, nsaved, rejected>>

(***************************************************************************)
(* Bounds of the model.                                                    *)
(***************************************************************************)
\* user-route requests handled concurrently
MaxUserReqs == 2
\* user-route requests that reach save() in one run
MaxSaves == 4
\* catalog-route requests handled concurrently
MaxShopReqs == 2

USlots == 1..MaxUserReqs
SSlots == 1..MaxShopReqs

(***************************************************************************)
(* JSON values as a request body or a remote payload carries them.  A      *)
(* string that is to be parsed as a number is a sequence of characters.    *)
(***************************************************************************)
Undefined == [t |-> "undefined"]
Null == [t |-> "null"]
NaN == [t |-> "NaN"]
Str(s) == [t |-> "string", v |-> s]
Num(n) == [t |-> "number", v |-> n]

\* a JSON string kept as its characters, for parseFloat
Chars(c) == [t |-> "string", chars |-> c]
Array(a) == [t |-> "array", v |-> a]

\* JavaScript truthiness, as `||` and `if (...)` use it.
Truthy(x) ==
  CASE x.t = "string" -> IF "chars" \in DOMAIN x THEN x.chars # <<>> ELSE x.v # ""
    [] x.t = "number" -> x.v # 0
    [] x.t \in {"array", "object"} -> TRUE
    [] OTHER -> FALSE

\* a || b
Or(a, b) == IF Truthy(a) THEN a ELSE b

\* Mongoose's cast of a value to a String path: a number becomes its decimal text.
castString(x) == IF x.t = "number" THEN ToString(x.v) ELSE x.v

Min(S) == CHOOSE x \in S : \A y \in S : x <= y

IsPrefix(s, t) == Len(s) <= Len(t) /\ SubSeq(t, 1, Len(s)) = s

Last(s) == s[Len(s)]

(***************************************************************************)
(* Inputs of the user routes.                                              *)
(***************************************************************************)
\* _ids the store hands out, in the order it hands them out
IdPool == <<"u1", "u2">>
UserIds == {IdPool[i] : i \in DOMAIN IdPool}
\* :id as a request can carry it: a well-formed ObjectId, or text that is none
MalformedId == "zz"
IdParams == UserIds \cup {MalformedId}

Emails == {"a@x"}
\* req.body of POST /api/users/register; name may be missing
RegisterBodies == [name : {Str("Ann"), Undefined}, email : Emails]

\* req.body of POST /api/users/:id/cart.  productId arrives as JSON text or
\* as a JSON number; price and quantity are JSON numbers.
Quantities == {1, 2}
CartBodies ==
  { [productId |-> Str("p1"), name |-> "Pizza", price |-> 10, quantity |-> q] : q \in Quantities }
  \cup { [productId |-> Num(1), name |-> "Cola", price |-> 5, quantity |-> q] : q \in Quantities }

\* values Date.now() returns; the clock is the environment's
Times == {1, 2}

(***************************************************************************)
(* Responses.                                                              *)
(***************************************************************************)
Ok(data) == [status |-> 200, success |-> TRUE, data |-> data]
Fail(status, error) == [status |-> status, success |-> FALSE, error |-> error]

Idle == [pc |-> "idle"]

\* a handled request: its route, the response it sent, and whether another
\* request saved the same user between this one's load and its save
Done(op, res, stale) == [op |-> op, res |-> res, stale |-> stale]

NoResponse == Done("none", Null, FALSE)

\* a request takes the lowest free slot
Free(slots, r) == slots[r] = Idle /\ \A s \in DOMAIN slots : s < r => slots[s] # Idle

(***************************************************************************)
(* The User collection.                                                    *)
(***************************************************************************)
\* User.findById(id): a CastError for text that is no ObjectId
ValidId(id) == id \in UserIds

findById(id) == User[id]

\* User.findOne({ email })
findOne(email) ==
  LET S == {i \in DOMAIN IdPool : User[IdPool[i]] # Null /\ User[IdPool[i]].email = email}
  IN IF S = {} THEN Null ELSE User[IdPool[Min(S)]]

\* new User({ name, email, phone, address }): cart and orders start empty
NewUser(body) ==
  [name |-> body.name, email |-> body.email, cart |-> <<>>, orders |-> <<>>, __v |-> 0]

\* the unique index on email (server.js:32) rejects a second document
DuplicateKey(doc) == \E id \in UserIds : User[id] # Null /\ User[id].email = doc.email

\* required: true on name (server.js:31)
ValidationFails(doc) == doc.name = Undefined

FreeId == IdPool[Min({i \in DOMAIN IdPool : User[IdPool[i]] = Null})]

(***************************************************************************)
(* POST /api/users/:id/cart, the synchronous part (server.js:149-154).     *)
(***************************************************************************)
\* user.cart.find(item => item.productId === productId): index of the first
\* match, 0 for undefined.  item.productId is the stored String.
existingItem(cart, productId) ==
  LET S == {i \in DOMAIN cart : Str(cart[i].productId) = productId}
  IN IF S = {} THEN 0 ELSE Min(S)

\* the cart sub-document Mongoose makes of the pushed object (server.js:52-58)
castItem(body) ==
  [productId |-> castString(body.productId), name |-> body.name,
   price |-> body.price, quantity |-> body.quantity]

addToCart(cart, body) ==
  LET i == existingItem(cart, body.productId)
  IN IF i # 0
       THEN [cart EXCEPT ![i].quantity = @ + body.quantity]
       ELSE Append(cart, castItem(body))

(***************************************************************************)
(* POST /api/users/:id/orders, the synchronous part (server.js:184-200).   *)
(***************************************************************************)
RECURSIVE reduce(_, _, _)
\* user.cart.reduce((sum, item) => sum + item.price * item.quantity, 0)
reduce(cart, i, sum) ==
  IF i > Len(cart) THEN sum
  ELSE reduce(cart, i + 1, sum + cart[i].price * cart[i].quantity)

\* a total that forgets the quantities
totalOfPrices(cart) == reduce([i \in DOMAIN cart |-> [cart[i] EXCEPT !.quantity = 1]], 1, 0)

total(cart) == reduce(cart, 1, 0)

orderProducts(cart) ==
  [i \in DOMAIN cart |->
     [productId |-> cart[i].productId, name |-> cart[i].name,
      price |-> cart[i].price, quantity |-> cart[i].quantity]]

makeOrder(cart, now) ==
  [orderId |-> "ORDER_" \o ToString(now), products |-> orderProducts(cart),
   total |-> total(cart), status |-> "pending"]

\* the document as the handler has modified it in memory, from the one it loaded
Modified(q, now) ==
  IF q.op = "addItem"
    THEN [q.user EXCEPT !.cart = addToCart(q.user.cart, q.body)]
    ELSE [q.user EXCEPT !.orders = Append(q.user.orders, makeOrder(q.user.cart, now)),
                        !.cart = <<>>]

\* the update user.save() sends: the modified paths only.
\*   existingItem.quantity += quantity   $set of cart.<i>.quantity, a path
\*                                       inside an array: applies only to the
\*                                       __v that was loaded
\*   user.cart.push(item)                $push, increments __v
\*   user.orders.push(order)             $push, increments __v
\*   user.cart = []                      $set of an array when it changes the
\*                                       loaded value: applies only to the __v
\*                                       that was loaded, increments __v
delta(q, now) ==
  IF q.op = "addItem"
    THEN LET i == existingItem(q.user.cart, q.body.productId)
         IN IF i # 0
              THEN [kind |-> "$set quantity", at |-> i,
                    value |-> q.user.cart[i].quantity + q.body.quantity,
                    where |-> TRUE, inc |-> 0]
              ELSE [kind |-> "$push cart", value |-> castItem(q.body),
                    where |-> FALSE, inc |-> 1]
    ELSE [kind |-> "$push orders", value |-> makeOrder(q.user.cart, now),
          clear |-> q.user.cart # <<>>,
          where |-> q.user.cart # <<>>, inc |-> 1]

\* the update finds no document: the stored __v is not the loaded one
VersionError(q, now) == delta(q, now).where /\ User[q.id].__v # q.user.__v

\* save() writing the whole loaded copy back
writtenWhole(q, now) == [Modified(q, now) EXCEPT !.__v = User[q.id].__v + 1]

\* save() sending the increment instead of the incremented quantity
writtenIncrement(q, now) ==
  LET d == delta(q, now)
      doc == User[q.id]
  IN IF d.kind = "$set quantity"
       THEN [doc EXCEPT !.cart[d.at].quantity = @ + q.body.quantity]
     ELSE IF d.kind = "$push cart"
       THEN [doc EXCEPT !.cart = Append(@, d.value), !.__v = @ + d.inc]
     ELSE [doc EXCEPT !.orders = Append(@, d.value),
                      !.cart = IF d.clear THEN <<>> ELSE @,
                      !.__v = @ + d.inc]

\* the stored document once the store has applied the update
written(q, now) ==
  LET d == delta(q, now)
      doc == User[q.id]
  IN IF d.kind = "$set quantity"
       THEN [doc EXCEPT !.cart[d.at].quantity = d.value]
     ELSE IF d.kind = "$push cart"
       THEN [doc EXCEPT !.cart = Append(@, d.value), !.__v = @ + d.inc]
     ELSE [doc EXCEPT !.orders = Append(@, d.value),
                      !.cart = IF d.clear THEN <<>> ELSE @,
                      !.__v = @ + d.inc]

\* a write another request made to the same user while this one held its copy
NoteWrite(r, id, w) ==
  [s \in USlots |->
     IF s # r /\ ureq[s].pc = "save" /\ ureq[s].op # "register" /\ ureq[s].id = id
       THEN [ureq[s] EXCEPT !.missed = @ \cup {w}]
       ELSE ureq[s]]

(***************************************************************************)
(* The user routes.                                                        *)
(***************************************************************************)
\* POST /api/users/register up to its await user.save()
RegisterFindOne(r, body) ==
  /\ Free(ureq, r)
  /\ LET existingUser == findOne(body.email)
     IN IF existingUser # Null
          THEN /\ ures' = Done("register", Fail(400, "User already exists"), FALSE)
               /\ UNCHANGED <<ureq, nsaved>>
          ELSE /\ nsaved < MaxSaves
               /\ ureq' = [ureq EXCEPT ![r] =
                     [pc |-> "save", op |-> "register", body |-> body,
                      user |-> NewUser(body)]]
               /\ nsaved' = nsaved + 1
               /\ UNCHANGED ures
  /\ UNCHANGED <<User, Product, sreq, rejected>>

\* user.save() of the new document settles; the handler answers
RegisterSave(r) ==
  /\ ureq[r].pc = "save" /\ ureq[r].op = "register"
  /\ LET user == ureq[r].user
     IN IF ValidationFails(user)
          THEN /\ ures' = Done("register", Fail(500, "ValidationError"), FALSE)
               /\ UNCHANGED User
          ELSE IF DuplicateKey(user)
          THEN /\ ures' = Done("register", Fail(500, "E11000 duplicate key"), FALSE)
               /\ UNCHANGED User
          ELSE /\ User' = [User EXCEPT ![FreeId] = user]
               /\ ures' = Done("register", Ok(user), FALSE)
  /\ ureq' = [ureq EXCEPT ![r] = Idle]
  /\ UNCHANGED <<Product, sreq, nsaved, rejected>>

\* GET /api/users/:id, GET /api/users/:id/cart, GET /api/users/:id/orders
ReadUser(op, id) ==
  /\ op \in {"getProfile", "getCart", "listOrders"}
  /\ ures' =
        Done(op, IF ~ValidId(id) THEN Fail(500, "CastError")
                 ELSE IF findById(id) = Null THEN Fail(404, "User not found")
                 ELSE IF op = "getProfile" THEN Ok(findById(id))
                 ELSE IF op = "getCart" THEN Ok(findById(id).cart)
                 ELSE Ok(findById(id).orders), FALSE)
  /\ UNCHANGED <<User, Product, ureq, sreq, nsaved, rejected>>

\* the await User.findById of a mutating handler, and what it does with the answer
LoadUser(r, op, id, body) ==
  /\ Free(ureq, r)
  /\ IF ~ValidId(id)
       THEN /\ ures' = Done(op, Fail(500, "CastError"), FALSE)
            /\ UNCHANGED <<ureq, nsaved>>
       ELSE IF findById(id) = Null
       THEN /\ ures' = Done(op, Fail(404, "User not found"), FALSE)
            /\ UNCHANGED <<ureq, nsaved>>
       ELSE /\ nsaved < MaxSaves
            /\ ureq' = [ureq EXCEPT ![r] =
                  [pc |-> "save", op |-> op, id |-> id, body |-> body,
                   user |-> findById(id), missed |-> {}]]
            /\ nsaved' = nsaved + 1
            /\ UNCHANGED ures
  /\ UNCHANGED <<User, Product, sreq, rejected>>

\* POST /api/users/:id/cart up to its await user.save()
AddItemLoad(r, id, body) == LoadUser(r, "addItem", id, body)

\* POST /api/users/:id/orders up to its await user.save()
PlaceOrderLoad(r, id) == LoadUser(r, "placeOrder", id, Undefined)

\* the store settles the save() of a mutating handler; the handler answers
\* from its own copy, or with the 500 of its catch
SaveStep(r, now) ==
  LET q == ureq[r]
      user == Modified(q, now)
  IN IF VersionError(q, now)
       THEN /\ UNCHANGED User
            /\ ureq' = [ureq EXCEPT ![r] = Idle]
            /\ ures' = Done(q.op, Fail(500, "VersionError"), q.missed # {})
       ELSE /\ User' = [User EXCEPT ![q.id] = written(q, now)]
            /\ ureq' = [NoteWrite(r, q.id, [op |-> q.op, body |-> q.body, now |-> now,
                                            kind |-> delta(q, now).kind])
                          EXCEPT ![r] = Idle]
            /\ ures' = Done(q.op, IF q.op = "addItem" THEN Ok(user.cart)
                                  ELSE Ok(Last(user.orders)), q.missed # {})

AddItemSave(r) ==
  /\ ureq[r].pc = "save" /\ ureq[r].op = "addItem"
  /\ SaveStep(r, 0)
  /\ UNCHANGED <<Product, sreq, nsaved, rejected>>

PlaceOrderSave(r, now) ==
  /\ ureq[r].pc = "save" /\ ureq[r].op = "placeOrder"
  /\ SaveStep(r, now)
  /\ UNCHANGED <<Product, sreq, nsaved, rejected>>

UserNext ==
  \/ \E r \in USlots, body \in RegisterBodies : RegisterFindOne(r, body)
  \/ \E r \in USlots : RegisterSave(r)
  \/ \E op \in {"getProfile", "getCart", "listOrders"}, id \in IdParams : ReadUser(op, id)
  \/ \E r \in USlots, id \in IdParams, body \in CartBodies : AddItemLoad(r, id, body)
  \/ \E r \in USlots : AddItemSave(r)
  \/ \E r \in USlots, id \in IdParams : PlaceOrderLoad(r, id)
  \/ \E r \in USlots, now \in Times : PlaceOrderSave(r, now)

Init ==
  /\ User = [id \in UserIds |-> Null]
  /\ Product = EmptyBag
  /\ ureq = [r \in USlots |-> Idle]
  /\ sreq = [r \in SSlots |-> Idle]
  /\ ures = NoResponse
  /\ nsaved = 0
  /\ rejected = FALSE

UserSpec == Init /\ [][UserNext]_vars

(***************************************************************************)
(* Inputs of the catalog routes.                                           *)
(***************************************************************************)
\* one product of the remote payload
Item(name, productName, price, category) ==
  [name |-> name, productName |-> productName, price |-> price,
   description |-> Undefined, image |-> Undefined, category |-> category]

Pizza == Item(Str("Pizza"), Undefined, Num(10), Str("Food"))
Cola == Item(Undefined, Str("Cola"), Chars(<<"5", "x">>), Undefined)
Tea == Item(Str("Tea"), Str("Chai"), Chars(<<"n", "a">>), Str(""))
Nameless == Item(Undefined, Undefined, Undefined, Str("Food"))

\* shopData.data of a remote answer; owner stands for the fields of the
\* payload that the handler does not pick
ShopData(products) ==
  [t |-> "object", shopName |-> "FunFood", appName |-> "funfood", gstNumber |-> "GST1",
   lastUpdated |-> "today", owner |-> "admin", products |-> products]

ProductLists == {Undefined, Array(<<Pizza, Cola>>), Array(<<Tea, Nameless>>)}

\* what the remote server sends as the body, once JSON.parse has read it;
\* Malformed is a body JSON.parse throws on
Malformed == [t |-> "malformed"]
Bodies ==
  {Malformed,
   [t |-> "object", success |-> FALSE, data |-> Undefined],
   [t |-> "object", success |-> TRUE, data |-> Undefined]}
  \cup {[t |-> "object", success |-> TRUE, data |-> ShopData(l)] : l \in ProductLists}

\* the 'error' event of the request
RemoteFailure == [t |-> "error"]

(***************************************************************************)
(* GET /api/shop-data: the mapping of a remote product (server.js:257-264) *)
(***************************************************************************)
Digits == <<"0", "1", "2", "3", "4", "5", "6", "7", "8", "9">>
IsDigit(c) == \E i \in DOMAIN Digits : Digits[i] = c
DigitValue(c) == (CHOOSE i \in DOMAIN Digits : Digits[i] = c) - 1

RECURSIVE parseDigits(_, _, _)
\* the value of the longest prefix of digits from position i on, NaN when empty
parseDigits(c, i, acc) ==
  IF i <= Len(c) /\ IsDigit(c[i])
    THEN parseDigits(c, i + 1, Num(10 * (IF acc = NaN THEN 0 ELSE acc.v) + DigitValue(c[i])))
    ELSE acc

\* parseFloat(x), for the values the payloads of the model carry
parseFloat(x) ==
  CASE x.t = "number" -> x
    [] x.t = "string" -> parseDigits(x.chars, 1, NaN)
    [] OTHER -> NaN

\* a mapping without the default category
newProductNoDefault(product) ==
  [name |-> Or(product.name, product.productName),
   price |-> Or(parseFloat(product.price), Num(0)).v,
   description |-> Or(product.description, Str("")).v,
   image |-> product.image,
   category |-> Or(product.category, Str("")).v,
   inStock |-> TRUE]

\* new Product({...}) of one remote product
newProduct(product) ==
  [name |-> Or(product.name, product.productName),
   price |-> Or(parseFloat(product.price), Num(0)).v,
   description |-> Or(product.description, Str("")).v,
   image |-> product.image,
   category |-> Or(product.category, Str("General")).v,
   inStock |-> TRUE]

\* required: true on name (server.js:18); price is always a number here
invalid(doc) == doc.name = Undefined

\* the document as stored: name cast to a String
stored(doc) == [doc EXCEPT !.name = castString(doc.name)]

\* shopData.data.products || []
productList(data) == Or(data.products, Array(<<>>)).v

\* the answer of the success branch (server.js:269-278)
merged(data) ==
  Ok([shopName |-> data.shopName, appName |-> data.appName, gstNumber |-> data.gstNumber,
      products |-> productList(data), lastUpdated |-> data.lastUpdated])

\* a .catch that reports the failure
fallbackAsError(data) == Fail(500, "Error saving products")

\* the answer of the .catch of Promise.all (server.js:281)
fallback(data) == Ok(data)

(***************************************************************************)
(* The catalog routes.  A slot holds, of its request: the route (op), the  *)
(* responses sent so far (sent) and the last of them (res); a refresh also *)
(* holds what the remote sent (remote), the documents whose save() is      *)
(* pending, whether one was rejected (failed) and whether no other refresh *)
(* wrote to Product since its own deleteMany (alone).                      *)
(***************************************************************************)
Answered(op, remote, res) ==
  [pc |-> "done", op |-> op, remote |-> remote, sent |-> 1, res |-> res,
   failed |-> FALSE, alone |-> TRUE]

\* another refresh wrote to Product while slot s was between its deleteMany
\* and its last insert
Disturb(r) ==
  [s \in SSlots |->
     IF s # r /\ sreq[s].pc = "inserting" THEN [sreq[s] EXCEPT !.alone = FALSE] ELSE sreq[s]]

\* Product.find({ inStock: true }): the stored documents that are in stock
findInStock == [d \in {x \in BagToSet(Product) : x.inStock} |-> Product[d]]

\* GET /api/products
ListProducts(r) ==
  /\ Free(sreq, r)
  /\ sreq' = [sreq EXCEPT ![r] =
        Answered("list", Undefined, Ok(findInStock))]
  /\ UNCHANGED <<User, Product, ureq, ures, nsaved, rejected>>

\* :id of GET /api/products/:id: text that is no ObjectId, the id of no
\* stored product, or the id of a stored one
ProductIds ==
  {[t |-> "malformed"], [t |-> "absent"]}
  \cup {[t |-> "present", doc |-> d] : d \in BagToSet(Product)}

\* GET /api/products/:id
GetProduct(r, id) ==
  /\ Free(sreq, r)
  /\ sreq' = [sreq EXCEPT ![r] =
        Answered("getById", Undefined,
                 IF id.t = "malformed" THEN Fail(500, "CastError")
                 ELSE IF id.t = "absent" THEN Fail(404, "Product not found")
                 ELSE Ok(id.doc))]
  /\ UNCHANGED <<User, Product, ureq, ures, nsaved, rejected>>

\* GET /api/shop-data up to request.end(); http.request may throw
ShopDataStart(r, throws) ==
  /\ Free(sreq, r)
  /\ sreq' = [sreq EXCEPT ![r] =
        IF throws THEN Answered("shop-data", Undefined, Fail(500, "error.message"))
        ELSE [pc |-> "fetch", op |-> "shop-data"]]
  /\ UNCHANGED <<User, Product, ureq, ures, nsaved, rejected>>

\* request.on('error', ...)
RemoteError(r) ==
  /\ sreq[r].pc = "fetch"
  /\ sreq' = [sreq EXCEPT ![r] =
        Answered("shop-data", RemoteFailure,
                 Fail(500, "Failed to fetch shop data from main server"))]
  /\ UNCHANGED <<User, Product, ureq, ures, nsaved, rejected>>

\* a handler that clears the collection before it reads the answer
RemoteEndClearingFirst(r, body) ==
  /\ sreq[r].pc = "fetch"
  /\ Product' = EmptyBag
  /\ sreq' = [sreq EXCEPT ![r] =
        IF body = Malformed
          THEN Answered("shop-data", body, Fail(500, "Failed to parse shop data"))
        ELSE IF ~body.success
          THEN Answered("shop-data", body, Fail(404, "Shop data not found"))
        ELSE IF body.data = Undefined
          THEN Answered("shop-data", body, Fail(500, "Failed to parse shop data"))
        ELSE [pc |-> "deleting", op |-> "shop-data", remote |-> body]]
  /\ UNCHANGED <<User, ureq, ures, nsaved, rejected>>

\* response.on('end', ...): parse, then answer or call Product.deleteMany({})
RemoteEnd(r, body) ==
  /\ sreq[r].pc = "fetch"
  /\ sreq' = [sreq EXCEPT ![r] =
        IF body = Malformed
          THEN Answered("shop-data", body, Fail(500, "Failed to parse shop data"))
        ELSE IF ~body.success
          THEN Answered("shop-data", body, Fail(404, "Shop data not found"))
        ELSE IF body.data = Undefined
          THEN Answered("shop-data", body, Fail(500, "Failed to parse shop data"))
        ELSE [pc |-> "deleting", op |-> "shop-data", remote |-> body]]
  /\ UNCHANGED <<User, Product, ureq, ures, nsaved, rejected>>

\* deleteMany resolves: the .then maps the products to save() calls;
\* Promise.all of no promise resolves at once
DeleteManyResolves(r) ==
  /\ sreq[r].pc = "deleting"
  /\ Product' = EmptyBag
  /\ LET data == sreq[r].remote.data
         products == productList(data)
     IN sreq' = [Disturb(r) EXCEPT ![r] =
          IF products = <<>>
            THEN Answered("shop-data", sreq[r].remote, merged(data))
            ELSE [pc |-> "inserting", op |-> "shop-data", remote |-> sreq[r].remote,
                  pending |-> DOMAIN products, sent |-> 0, res |-> Null,
                  failed |-> FALSE, alone |-> TRUE]]
  /\ UNCHANGED <<User, ureq, ures, nsaved, rejected>>

\* deleteMany rejects: the promise has no rejection handler
DeleteManyRejects(r) ==
  /\ sreq[r].pc = "deleting"
  /\ sreq' = [sreq EXCEPT ![r] =
        [pc |-> "done", op |-> "shop-data", remote |-> sreq[r].remote, sent |-> 0,
         res |-> Null, failed |-> TRUE, alone |-> TRUE]]
  /\ rejected' = TRUE
  /\ UNCHANGED <<User, Product, ureq, ures, nsaved>>

Pending(r) == IF sreq[r].pc = "inserting" THEN sreq[r].pending ELSE {}

\* newProduct.save() of the i-th product settles; accepts says whether the
\* store takes a valid document.  Promise.all rejects with the first
\* rejection and resolves with the last fulfilment.
InsertSettles(r, i, accepts) ==
  /\ sreq[r].pc = "inserting"
  /\ i \in sreq[r].pending
  /\ LET q == sreq[r]
         data == q.remote.data
         doc == newProduct(productList(data)[i])
         saved == ~invalid(doc) /\ accepts
         left == q.pending \ {i}
         failed == q.failed \/ ~saved
         rejects == ~saved /\ ~q.failed
         resolves == left = {} /\ ~failed
         res == IF rejects THEN fallback(data)
                ELSE IF resolves THEN merged(data)
                ELSE q.res
     IN /\ Product' = IF saved THEN Product (+) SetToBag({stored(doc)}) ELSE Product
        /\ rejected' = (rejected \/ ~saved)
        /\ sreq' = [(IF saved THEN Disturb(r) ELSE sreq) EXCEPT ![r] =
              [q EXCEPT !.pc = IF left = {} THEN "done" ELSE "inserting",
                        !.pending = left,
                        !.failed = failed,
                        !.sent = IF rejects \/ resolves THEN q.sent + 1 ELSE q.sent,
                        !.res = res]]
  /\ UNCHANGED <<User, ureq, ures, nsaved>>

\* nothing of the request is left
ShopDone(r) ==
  /\ sreq[r].pc = "done"
  /\ sreq' = [sreq EXCEPT ![r] = Idle]
  /\ UNCHANGED <<User, Product, ureq, ures, nsaved, rejected>>

ShopNext ==
  \/ \E r \in SSlots : ListProducts(r)
  \/ \E r \in SSlots, id \in ProductIds : GetProduct(r, id)
  \/ \E r \in SSlots, throws \in BOOLEAN : ShopDataStart(r, throws)
  \/ \E r \in SSlots : RemoteError(r)
  \/ \E r \in SSlots, body \in Bodies : RemoteEnd(r, body)
  \/ \E r \in SSlots : DeleteManyResolves(r)
  \/ \E r \in SSlots : DeleteManyRejects(r)
  \/ \E r \in SSlots, accepts \in BOOLEAN : \E i \in Pending(r) : InsertSettles(r, i, accepts)
  \/ \E r \in SSlots : ShopDone(r)

ShopSpec == Init /\ [][ShopNext]_vars

(***************************************************************************)
(* Steps, as the properties below name them.                               *)
(***************************************************************************)
\* slot r's mutating handler has its save() applied and answers in this step
Saves(r) ==
  /\ ureq[r].pc = "save" /\ ureq[r].op \in {"addItem", "placeOrder"}
  /\ ureq'[r] = Idle

\* ... and no other request saved that user since slot r loaded it
SavesFresh(r) == Saves(r) /\ ureq[r].missed = {}

\* slot r's register has its save() settled in this step
RegisterSettles(r) ==
  ureq[r].pc = "save" /\ ureq[r].op = "register" /\ ureq'[r] = Idle

\* the cart lines that carry product id pid (as the store holds it)
Lines(cart, pid) == {i \in DOMAIN cart : cart[i].productId = pid}

RECURSIVE QtySum(_, _)
QtySum(cart, S) ==
  IF S = {} THEN 0
  ELSE LET i == CHOOSE x \in S : TRUE IN cart[i].quantity + QtySum(cart, S \ {i})

\* quantity the cart holds of pid, over all its lines
Held(cart, pid) == QtySum(cart, Lines(cart, pid))

RECURSIVE Worth(_)
\* sum of price * quantity, from the last line back
Worth(cart) ==
  IF cart = <<>> THEN 0
  ELSE Worth(SubSeq(cart, 1, Len(cart) - 1)) + Last(cart).price * Last(cart).quantity

(***************************************************************************)
(* C1.  addItem calls run one after another accumulate: after an addItem   *)
(* that ran without another save in between, the cart holds exactly one    *)
(* line for the added productId, its quantity is what the cart held of     *)
(* that product plus the quantity passed, and the other lines are as they  *)
(* were.  From the empty cart this gives one line per distinct productId   *)
(* with the sum of the quantities passed.                                  *)
(***************************************************************************)
AddItemAccumulates ==
  [][\A r \in USlots :
       (SavesFresh(r) /\ ureq[r].op = "addItem") =>
         LET q == ureq[r]
             pid == castString(q.body.productId)
             before == User[q.id].cart
             after == User'[q.id].cart
         IN /\ Cardinality(Lines(after, pid)) = 1
            /\ Held(after, pid) = Held(before, pid) + q.body.quantity
            /\ \A i \in DOMAIN before : before[i].productId # pid => after[i] = before[i]
    ]_vars

(***************************************************************************)
(* C2.  A placeOrder that ran without another save in between answers 200  *)
(* with an order that has one product per cart line (same productId, name, *)
(* price, quantity, in cart order), total = sum of price * quantity,       *)
(* status "pending"; afterwards the stored cart is empty and the order is  *)
(* the last of the stored history.                                         *)
(***************************************************************************)
PlaceOrderSnapshotsCart ==
  [][\A r \in USlots :
       (SavesFresh(r) /\ ureq[r].op = "placeOrder") =>
         LET cart == User[ureq[r].id].cart
             after == User'[ureq[r].id]
             o == ures'.res.data
         IN /\ ures'.op = "placeOrder"
            /\ ures'.res.status = 200 /\ ures'.res.success
            /\ DOMAIN o.products = DOMAIN cart
            /\ \A i \in DOMAIN cart :
                 /\ o.products[i].productId = cart[i].productId
                 /\ o.products[i].name = cart[i].name
                 /\ o.products[i].price = cart[i].price
                 /\ o.products[i].quantity = cart[i].quantity
            /\ o.total = Worth(cart)
            /\ o.status = "pending"
            /\ after.cart = <<>>
            /\ after.orders # <<>> /\ Last(after.orders) = o
    ]_vars

\* an order of two lines worth 25 was placed without interference
PlaceOrderTwoLines ==
  /\ ures.op = "placeOrder" /\ ~ures.stale
  /\ ures.res.success
  /\ Len(ures.res.data.products) = 2
  /\ ures.res.data.total = 25
  /\ \E id \in UserIds : User[id] # Null /\ User[id].cart = <<>>
                          /\ User[id].orders # <<>> /\ Last(User[id].orders) = ures.res.data

(***************************************************************************)
(* C3.  A register (of a complete body) whose email a stored User already  *)
(* has fails with 400 and success = false and leaves the collection as it  *)
(* was, also when the other register stored its User between this one's    *)
(* findOne and its save; no two stored Users share an email.               *)
(***************************************************************************)
EmailTaken(email) == \E id \in UserIds : User[id] # Null /\ User[id].email = email

DuplicateRegisterIsConflict ==
  [][/\ \A r \in USlots :
          (RegisterSettles(r) /\ ureq[r].body.name # Undefined
             /\ EmailTaken(ureq[r].body.email)) =>
            /\ ures'.res.status = 400 /\ ~ures'.res.success
            /\ User' = User
     /\ \A i, j \in UserIds :
          (User'[i] # Null /\ User'[j] # Null /\ User'[i].email = User'[j].email) => i = j
    ]_vars

(***************************************************************************)
(* C4.  Under any interleaving of the handlers, an order once stored stays *)
(* as it is and where it is: every step leaves each stored User's history  *)
(* a prefix of the history after the step.                                 *)
(***************************************************************************)
OrdersAppendOnly ==
  [][\A id \in UserIds :
       User[id] # Null =>
         /\ User'[id] # Null
         /\ IsPrefix(User[id].orders, User'[id].orders)
    ]_vars

\* an addItem that loaded the User before a placeOrder stored its order of
\* one line has pushed its own line after it, and the order is still there
StaleAddItemKeepsHistory ==
  /\ ures.op = "addItem" /\ ures.stale /\ ures.res.success
  /\ nsaved = 4
  /\ \E id \in UserIds :
       /\ User[id] # Null /\ Len(User[id].cart) = 1
       /\ Len(User[id].orders) = 1 /\ Len(User[id].orders[1].products) = 1

(***************************************************************************)
(* C5 as claimed.  Every save() of a mutating handler that another request *)
(* to the same User overtook (it saved between this request's load and its *)
(* save) answers 200, and the stored User is then the one this request     *)
(* computed from its own copy: it holds nothing of the writes in between.  *)
(***************************************************************************)
LostUpdate ==
  [][\A r \in USlots :
       (Saves(r) /\ ureq[r].missed # {}) =>
         LET q == ureq[r]
             after == User'[q.id]
         IN /\ ures'.res.status = 200 /\ ures'.res.success
            /\ after.cart = Modified(q, 0).cart
            /\ Len(after.orders) = Len(q.user.orders) + (IF q.op = "placeOrder" THEN 1 ELSE 0)
    ]_vars

(***************************************************************************)
(* C5 as amended.  The lost update is that of a quantity increment.  When  *)
(* the only writes a mutating request missed are addItem increments of     *)
(* existing lines, its own save answers 200 and                            *)
(*   - an addItem incrementing line i stores, as line i's quantity, the    *)
(*     quantity it loaded plus its own: the increments line i got in       *)
(*     between are gone;                                                   *)
(*   - a placeOrder empties the cart and stores an order of the cart it    *)
(*     loaded: the increments made in between are in neither.              *)
(* An addItem pushing a new line leaves every stored quantity as it is.    *)
(***************************************************************************)
IncrementLost ==
  [][\A r \in USlots :
       (Saves(r) /\ ureq[r].missed # {}
          /\ \A m \in ureq[r].missed : m.kind = "$set quantity") =>
         LET q == ureq[r]
             before == User[q.id]
             after == User'[q.id]
             i == existingItem(q.user.cart, q.body.productId)
         IN /\ ures'.res.status = 200 /\ ures'.res.success
            /\ after.orders = IF q.op = "placeOrder" THEN Append(before.orders, ures'.res.data)
                              ELSE before.orders
            /\ q.op = "placeOrder" =>
                 /\ after.cart = <<>>
                 /\ ures'.res.data.products = orderProducts(q.user.cart)
            /\ (q.op = "addItem" /\ i # 0) =>
                 /\ after.cart = [before.cart EXCEPT
                                    ![i].quantity = q.user.cart[i].quantity + q.body.quantity]
                 /\ after.cart = ures'.res.data
            /\ (q.op = "addItem" /\ i = 0) =>
                 after.cart = Append(before.cart, castItem(q.body))
    ]_vars

\* of two addItem calls that both loaded a cart of one line and both
\* incremented it, the stored quantity has the increment of the later only
AddItemOverwritten ==
  /\ ures.op = "addItem" /\ ures.stale /\ ures.res.success
  /\ nsaved = 4
  /\ \E id \in UserIds :
       /\ User[id] # Null /\ User[id].orders = <<>> /\ User[id].__v = 1
       /\ Len(User[id].cart) = 1 /\ User[id].cart = ures.res.data
       /\ User[id].cart[1].quantity <= 4

(***************************************************************************)
(* The catalog a remote product list stands for, as the claims state it.   *)
(***************************************************************************)
Present(x) == x.t = "string" /\ x.v # ""

Expected(item) ==
  [name |-> IF Present(item.name) THEN item.name.v ELSE item.productName.v,
   price |-> IF parseFloat(item.price) = NaN THEN 0 ELSE parseFloat(item.price).v,
   description |-> "",
   image |-> Undefined,
   category |-> IF Present(item.category) THEN item.category.v ELSE "General",
   inStock |-> TRUE]

\* an item with neither name has no Product: a Product must have a name
Named(item) == Present(item.name) \/ Present(item.productName)

RECURSIVE Catalog(_)
\* the Products of the items of a list that can have one
Catalog(list) ==
  IF list = <<>> THEN EmptyBag
  ELSE IF Named(Head(list)) THEN Catalog(Tail(list)) (+) SetToBag({Expected(Head(list))})
  ELSE Catalog(Tail(list))

ListOf(remote) ==
  IF remote.data.products = Undefined THEN <<>> ELSE remote.data.products.v

\* the remote call failed, or its answer is of no use
Unusable(remote) ==
  \/ remote.t \in {"error", "malformed"}
  \/ remote.t = "object" /\ (~remote.success \/ remote.data = Undefined)

Refreshing(r) == sreq[r].pc \in {"fetch", "deleting", "inserting"}

\* slot r's refresh has its last store call settle in this step
Completes(r) == sreq[r].pc \in {"deleting", "inserting"} /\ sreq'[r].pc = "done"

(***************************************************************************)
(* C6.  A refresh whose remote call fails, or whose answer reports failure,*)
(* is malformed or lacks the data object, answers with a failure envelope  *)
(* and none of its steps changes the Product collection.                   *)
(***************************************************************************)
FailedFetchLeavesCatalog ==
  [][\A r \in SSlots :
       /\ (sreq[r].pc \in {"idle", "fetch"} /\ sreq'[r] # sreq[r]) => Product' = Product
       /\ (sreq[r].pc = "fetch" /\ sreq'[r] # sreq[r] /\ Unusable(sreq'[r].remote)) =>
            /\ sreq'[r].pc = "done" /\ sreq'[r].sent = 1
            /\ ~sreq'[r].res.success /\ sreq'[r].res.status >= 400
    ]_vars

\* a refresh has failed at its fetch while the collection held products
FailedFetchWithCatalog ==
  \E r \in SSlots :
    /\ sreq[r].pc = "done" /\ sreq[r].op = "shop-data"
    /\ sreq[r].remote # Undefined /\ Unusable(sreq[r].remote)
    /\ ~sreq[r].res.success
    /\ Product # EmptyBag

(***************************************************************************)
(* C7 as claimed.  Whenever no refresh is in progress and no refresh had a *)
(* store call rejected, the Product collection is exactly the image of one *)
(* remote product list, concurrent refreshes included.                     *)
(***************************************************************************)
CatalogIsOneImage ==
  ((\A r \in SSlots : ~Refreshing(r)) /\ ~rejected) =>
     \E l \in ProductLists :
        LET list == IF l = Undefined THEN <<>> ELSE l.v
        IN Product = Catalog(list) /\ BagCardinality(Product) = Len(list)

(***************************************************************************)
(* C7 as amended.  A refresh whose inserts all succeed and during which no *)
(* other refresh deletes or inserts leaves, at its last insert, exactly    *)
(* the image of its remote list: one Product per item, inStock, name the   *)
(* item's name or else its productName, price the parsed number or 0,      *)
(* category the item's or "General"; and only a refresh changes Product.   *)
(***************************************************************************)
RefreshAloneReplacesCatalog ==
  [][/\ \A r \in SSlots :
          (Completes(r) /\ sreq'[r].alone /\ ~sreq'[r].failed) =>
             /\ Product' = Catalog(ListOf(sreq[r].remote))
             /\ BagCardinality(Product') = Len(ListOf(sreq[r].remote))
     /\ Product' # Product => \E r \in SSlots : sreq[r].pc \in {"deleting", "inserting"}
    ]_vars

\* a refresh that ran alone has stored Pizza and, under its productName, Cola
RefreshedPizzaAndCola ==
  /\ \E r \in SSlots :
       /\ sreq[r].pc = "done" /\ sreq[r].op = "shop-data"
       /\ sreq[r].alone /\ ~sreq[r].failed /\ sreq[r].res.success
  /\ Product =
       SetToBag({[name |-> "Pizza", price |-> 10, description |-> "", image |-> Undefined,
                  category |-> "Food", inStock |-> TRUE],
                 [name |-> "Cola", price |-> 5, description |-> "", image |-> Undefined,
                  category |-> "General", inStock |-> TRUE]})

(***************************************************************************)
(* C8 as claimed.  A refresh that ran alone and had an insert rejected     *)
(* leaves the Product collection empty and has answered success = true     *)
(* with the remote payload as data.                                        *)
(***************************************************************************)
InsertFailureLeavesStoreEmpty ==
  [][\A r \in SSlots :
       (Completes(r) /\ sreq[r].pc = "inserting" /\ sreq'[r].alone /\ sreq'[r].failed) =>
          /\ Product' = EmptyBag
          /\ sreq'[r].res = Ok(sreq[r].remote.data)
    ]_vars

(***************************************************************************)
(* C8 as amended.  A refresh that ran alone and had an insert rejected     *)
(* leaves in the Product collection the products whose insert succeeded:   *)
(* images of items of its remote list, fewer than the list has items, and  *)
(* nothing else; it has answered once, success = true with the remote      *)
(* payload as data.                                                        *)
(***************************************************************************)
InsertFailureLeavesPartialCatalog ==
  [][\A r \in SSlots :
       (Completes(r) /\ sreq[r].pc = "inserting" /\ sreq'[r].alone /\ sreq'[r].failed) =>
          /\ Product' \sqsubseteq Catalog(ListOf(sreq[r].remote))
          /\ BagCardinality(Product') < Len(ListOf(sreq[r].remote))
          /\ sreq'[r].sent = 1
          /\ sreq'[r].res.status = 200 /\ sreq'[r].res.success
          /\ sreq'[r].res.data = sreq[r].remote.data
    ]_vars

\* a refresh had an insert rejected and the collection holds the other product
InsertFailedCatalogNotEmpty ==
  \E r \in SSlots :
    /\ sreq[r].pc = "done" /\ sreq[r].op = "shop-data"
    /\ sreq[r].alone /\ sreq[r].failed /\ sreq[r].sent = 1
    /\ sreq[r].res.success
    /\ Product # EmptyBag

(***************************************************************************)
(* C9.  Every failure response has the status of the taxonomy: 404 for a   *)
(* missing user or product and for a malformed product id, 400 for a       *)
(* duplicate email and a missing required field, 500 for the rest; and no  *)
(* request that met an error answers 2xx.                                  *)
(***************************************************************************)
TaxonomyStatus(op, error) ==
  IF error \in {"User not found", "Product not found"} THEN 404
  ELSE IF op = "getById" /\ error = "CastError" THEN 404
  ELSE IF error \in {"User already exists", "E11000 duplicate key", "ValidationError"} THEN 400
  ELSE 500

StatusFollowsTaxonomy ==
  /\ \A r \in SSlots :
       (sreq[r].pc \in {"inserting", "done"} /\ sreq[r].res # Null) =>
          IF sreq[r].res.success THEN ~sreq[r].failed
          ELSE sreq[r].res.status = TaxonomyStatus(sreq[r].op, sreq[r].res.error)
  /\ (ures.res # Null /\ ~ures.res.success) =>
       ures.res.status = TaxonomyStatus(ures.op, ures.res.error)

(***************************************************************************)
(* C10.  A /api/shop-data request whose remote call and store calls have   *)
(* all settled has sent exactly one response.                              *)
(***************************************************************************)
ShopDataAnswersOnce ==
  \A r \in SSlots :
    (sreq[r].pc = "done" /\ sreq[r].op = "shop-data") => sreq[r].sent = 1

====
